---- MODULE Spec2Model ----
(***************************************************************************)
(* PokePackOpener: the Collection Store (utils/storage.js), the Card Fetch  *)
(* Pipeline (utils/api.js, openPack), the page that opens packs            *)
(* (pages/HomePage.jsx) and the earlier pipeline (fetchRandomCards) as a   *)
(* state machine.                                                          *)
(*                                                                         *)
(* A card is a record [id, fetchedAt].  id = NoId stands for a record      *)
(* whose identifier is missing or the empty string (falsy in the source);  *)
(* NullEntry stands for an array entry that is null, on which a property   *)
(* access raises TypeError.  fetchedAt = 0 stands for a raw provider       *)
(* record that has not been normalized.                                    *)
(***************************************************************************)
EXTENDS Integers, Sequences, FiniteSets, TLC

VARIABLES
    localStorage,     \* key -> stored text (browser key-value store)
    storageMode,      \* "ok" | "full" (setItem raises QuotaExceededError)
                      \*      | "denied" (every access raises SecurityError)
    lastOp,           \* the last Collection Store call and how it ended
    forceMockByEnv,   \* VITE_POKEMON_TCG_USE_MOCK is "1"
    forceMockByQuery, \* the page URL carries mock=1
    pc,               \* position of the openPack() call: "idle", "request"
                      \* (a fetch is in flight), "body" (the response is there,
                      \* its body is being read), "backoff", "returned"
    pageIdx,          \* index into pagesToTry of the page being fetched
    attempt,          \* attempt counter of fetchJsonWithRetry
    caught,           \* fetchJsonWithRetry: the error caught, until the retry starts
    delay,            \* fetchJsonWithRetry: the wait computed last, in ms
    armedTimers,      \* fetchWithTimeout: timeout timers set and not yet released
    selected,         \* fetchPackFromApi: raw cards picked so far
    existingIds,      \* fetchPackFromApi: identifiers picked so far
    lastError,        \* fetchPackFromApi: error of the last failed page; once
                      \* openPack() has returned, the error its catch block got
    result,           \* what openPack() returned
    fetched,          \* this openPack() has issued a fetch()
    allFailed,        \* no fetchJson() of this openPack() has returned normally
    obtained,         \* number of cards the page loop had selected when it ended
    called,           \* functions this openPack() has invoked
    clock,            \* the current instant (one tick per openPack() call)
    page,             \* HomePage's React state: cards, loading, error, notice, saved
    cardPromises,     \* earlier api.js, fetchRandomCards: the parallel page requests
    randomCards,      \* earlier api.js: what fetchRandomCards() ended in
    sampling,         \* one sampleUnique() call on its own: the arguments, and
                      \* once it has run what it returned and left behind
    other             \* a second handleOpenPack() run that overlaps the first

storeVars == <<localStorage, storageMode, lastOp>>
openPackVars == <<forceMockByEnv, forceMockByQuery, pc, pageIdx, attempt, caught, delay,
                  armedTimers, selected, existingIds, lastError, result, fetched, allFailed, obtained,
                  called, clock, page>>
legacyVars == <<cardPromises, randomCards>>
sideVars == <<sampling, other>>
packVars == <<openPackVars, legacyVars, sideVars>>
vars == <<localStorage, storageMode, lastOp, forceMockByEnv, forceMockByQuery,
          pc, pageIdx, attempt, caught, delay, armedTimers, selected, existingIds,
          lastError, result, fetched, allFailed, obtained, called, clock, page, cardPromises,
          randomCards, sampling, other>>

----------------------------------------------------------------------------
(* Bounds *)
MaxAddLen == 2          \* longest array handed to addToCollection

----------------------------------------------------------------------------
(* Program constants *)
STORAGE_KEY == "pokepack_collection"
API_CACHE_KEY == "pokepack_api_card_pool_v1"

----------------------------------------------------------------------------
(* Data *)
NoId == 0
NullEntry == [id |-> -1, fetchedAt |-> 0]

MkCard(i, t) == [id |-> i, fetchedAt |-> t]

\* JSON text as its decoded structure and its layout.  kind: "absent" (no
\* such key), "empty" (the empty string), "malformed" (JSON.parse raises),
\* "other" (valid JSON that is not an array), "array".  indent: the number of
\* spaces the text is indented with, 0 for the compact form.
Absent == [kind |-> "absent", items |-> <<>>, indent |-> 0]
EmptyText == [kind |-> "empty", items |-> <<>>, indent |-> 0]
MalformedText == [kind |-> "malformed", items |-> <<>>, indent |-> 0]
OtherJsonText == [kind |-> "other", items |-> <<>>, indent |-> 0]

\* JSON.stringify(value) of an array of JSON-safe records: the compact text
JSON_stringify(items) == [kind |-> "array", items |-> items, indent |-> 0]

\* JSON.stringify(value, null, space): the same array, one value per line
JSON_stringify_space(items, space) == [kind |-> "array", items |-> items, indent |-> space]

\* JSON.parse: raises SyntaxError on malformed (and on empty) text
JSON_parse(text) ==
    IF text.kind \in {"malformed", "empty", "absent"}
      THEN [raised |-> TRUE, isArray |-> FALSE, items |-> <<>>]
      ELSE [raised |-> FALSE, isArray |-> text.kind = "array", items |-> text.items]

SeqsUpTo(S, n) == UNION {[1..k -> S] : k \in 0..n}

IdsOf(items) == {items[k].id : k \in 1..Len(items)}

HasNullEntry(items) == \E k \in 1..Len(items) : items[k] = NullEntry

----------------------------------------------------------------------------
(* Browser storage *)

\* localStorage.getItem(key): raises when access is denied, else the text
\* (Absent for null)
getItem(store, mode, key) ==
    IF mode = "denied" THEN [raised |-> TRUE, text |-> Absent]
    ELSE [raised |-> FALSE, text |-> store[key]]

\* localStorage.setItem(key, text): raises SecurityError / QuotaExceededError
setItem(store, mode, key, text) ==
    IF mode = "denied" THEN [raised |-> "SecurityError", store |-> store]
    ELSE IF mode = "full" THEN [raised |-> "QuotaExceededError", store |-> store]
    ELSE [raised |-> "none", store |-> [store EXCEPT ![key] = text]]

----------------------------------------------------------------------------
(* Collection Store: utils/storage.js *)

\* getCollection(): [] when the key is absent or empty, when the read raises
\* or when the text does not parse; otherwise whatever JSON.parse returned,
\* which need not be an array.
getCollection(store, mode) ==
    LET got == getItem(store, mode, STORAGE_KEY)
        parsed == JSON_parse(got.text)
    IN  IF got.raised THEN [isArray |-> TRUE, items |-> <<>>]
        ELSE IF got.text.kind \in {"absent", "empty"} THEN [isArray |-> TRUE, items |-> <<>>]
        ELSE IF parsed.raised THEN [isArray |-> TRUE, items |-> <<>>]
        ELSE [isArray |-> parsed.isArray, items |-> parsed.items]

\* The array addToCollection computes: the stored cards followed by the given
\* cards whose id is not among the stored ids.
\* A mutant that appends every given card, stored or not:
updatedCollection_noFilter(collection, cardsToAdd) == collection \o cardsToAdd

\* A mutant that lets a given card take the place of the stored card with its id:
updatedCollection_overwrite(collection, cardsToAdd) ==
    LET storedIds == IdsOf(collection)
        fresh(card) == card.id \notin storedIds
        given(id) == cardsToAdd[CHOOSE j \in 1..Len(cardsToAdd) : cardsToAdd[j].id = id]
    IN  [k \in 1..Len(collection) |->
            IF collection[k].id \in IdsOf(cardsToAdd) THEN given(collection[k].id)
            ELSE collection[k]]
          \o SelectSeq(cardsToAdd, fresh)

\* A mutant that drops a given card only when the very record is stored:
updatedCollection_byRecord(collection, cardsToAdd) ==
    LET stored == {collection[k] : k \in 1..Len(collection)}
        fresh(card) == card \notin stored
    IN  collection \o SelectSeq(cardsToAdd, fresh)

\* A mutant that stores the given cards in place of the stored ones:
updatedCollection_replace(collection, cardsToAdd) == cardsToAdd

updatedCollection(collection, cardsToAdd) ==
    LET storedIds == IdsOf(collection)
        fresh(card) == card.id \notin storedIds
    IN  collection \o SelectSeq(cardsToAdd, fresh)

\* addToCollection(cards): cards is [isArray, items]; a single card is wrapped.
\* raised: "none", "TypeError" (the stored value is not an array, or a stored or
\* given entry is null), or the name of the storage failure.
\* A mutant whose catch block does not rethrow:
addToCollection_swallow(store, mode, cards) ==
    LET collection == getCollection(store, mode)
        cardsToAdd == cards.items
        updated == updatedCollection(collection.items, cardsToAdd)
        written == setItem(store, mode, STORAGE_KEY, JSON_stringify(updated))
    IN  IF ~collection.isArray \/ HasNullEntry(collection.items) \/ HasNullEntry(cardsToAdd)
          THEN [raised |-> "none", store |-> store, ret |-> <<>>]
        ELSE IF written.raised # "none"
          THEN [raised |-> "none", store |-> store, ret |-> <<>>]
        ELSE [raised |-> "none", store |-> written.store, ret |-> updated]

addToCollection(store, mode, cards) ==
    LET collection == getCollection(store, mode)
        cardsToAdd == cards.items
        updated == updatedCollection(collection.items, cardsToAdd)
        written == setItem(store, mode, STORAGE_KEY, JSON_stringify(updated))
    IN  IF ~collection.isArray \/ HasNullEntry(collection.items) \/ HasNullEntry(cardsToAdd)
          THEN [raised |-> "TypeError", store |-> store, ret |-> <<>>]
        ELSE IF written.raised # "none"
          THEN [raised |-> written.raised, store |-> store, ret |-> <<>>]
        ELSE [raised |-> "none", store |-> written.store, ret |-> updated]

\* clearCollection(): removeItem; a failure is logged, not raised
clearCollection(store, mode) ==
    IF mode = "denied" THEN store ELSE [store EXCEPT ![STORAGE_KEY] = Absent]

\* exportCollection(): JSON.stringify(getCollection(), null, 2)
\* A mutant that writes the records out last to first:
exportCollection_reversed(store, mode) ==
    LET collection == getCollection(store, mode)
        n == Len(collection.items)
    IN  IF collection.isArray
          THEN JSON_stringify_space([k \in 1..n |-> collection.items[n + 1 - k]], 2)
          ELSE OtherJsonText

exportCollection(store, mode) ==
    LET collection == getCollection(store, mode)
    IN  IF collection.isArray THEN JSON_stringify_space(collection.items, 2)
        ELSE OtherJsonText

\* importCollection(jsonString): replaces the stored text when the text
\* decodes to an array; raises otherwise, and when the write fails.
\* A mutant without the Array.isArray test:
importCollection_noArrayTest(store, mode, jsonString) ==
    LET imported == JSON_parse(jsonString)
        written == setItem(store, mode, STORAGE_KEY,
                           IF imported.isArray THEN JSON_stringify(imported.items)
                           ELSE OtherJsonText)
    IN  IF imported.raised THEN [raised |-> "SyntaxError", store |-> store, ret |-> <<>>]
        ELSE IF written.raised # "none"
          THEN [raised |-> written.raised, store |-> store, ret |-> <<>>]
        ELSE [raised |-> "none", store |-> written.store, ret |-> imported.items]

\* A mutant that merges the imported array into the stored one:
importCollection_merge(store, mode, jsonString) ==
    LET imported == JSON_parse(jsonString)
        kept == getCollection(store, mode).items
        written == setItem(store, mode, STORAGE_KEY,
                           JSON_stringify(updatedCollection(kept, imported.items)))
    IN  IF imported.raised THEN [raised |-> "SyntaxError", store |-> store, ret |-> <<>>]
        ELSE IF ~imported.isArray THEN [raised |-> "Error", store |-> store, ret |-> <<>>]
        ELSE IF written.raised # "none"
          THEN [raised |-> written.raised, store |-> store, ret |-> <<>>]
        ELSE [raised |-> "none", store |-> written.store, ret |-> imported.items]

importCollection(store, mode, jsonString) ==
    LET imported == JSON_parse(jsonString)
        written == setItem(store, mode, STORAGE_KEY, JSON_stringify(imported.items))
    IN  IF imported.raised THEN [raised |-> "SyntaxError", store |-> store, ret |-> <<>>]
        ELSE IF ~imported.isArray THEN [raised |-> "Error", store |-> store, ret |-> <<>>]
        ELSE IF written.raised # "none"
          THEN [raised |-> written.raised, store |-> store, ret |-> <<>>]
        ELSE [raised |-> "none", store |-> written.store, ret |-> imported.items]

----------------------------------------------------------------------------
(* Inputs of the store operations *)
\* Two cards, the first of them also as fetched at a later instant, and a
\* record without identifier
StoreCards == {MkCard(1, 1), MkCard(1, 2), MkCard(2, 1), MkCard(NoId, 1)}

AddArgs ==
    {[isArray |-> TRUE, items |-> s] : s \in SeqsUpTo(StoreCards, MaxAddLen)}
      \cup {[isArray |-> FALSE, items |-> <<c>>] : c \in StoreCards \cup {NullEntry}}
      \cup {[isArray |-> TRUE, items |-> <<NullEntry>>]}

ImportTexts ==
    {JSON_stringify(a) :
        a \in {<<>>, <<MkCard(1, 1)>>, <<MkCard(1, 1), MkCard(1, 2)>>,
               <<MkCard(2, 1), MkCard(1, 2)>>, <<MkCard(NoId, 1), MkCard(2, 1)>>,
               <<NullEntry>>}}
      \cup {JSON_stringify_space(<<MkCard(2, 1), MkCard(1, 1)>>, 2)}
      \cup {EmptyText, MalformedText, OtherJsonText}

NoOp == [op |-> "none", raised |-> "none"]

----------------------------------------------------------------------------
(* Card Fetch Pipeline: utils/api.js *)

(* Bounds *)
NumApiIds == 6      \* identifiers on the remote's full page
RandDen == 2        \* Math.random() is drawn from {0/RandDen .. (RandDen-1)/RandDen}

(* Program constants *)
RETRY_COUNT == 1
RETRY_BASE_DELAY_MS == 500
API_CACHE_LIMIT == 200
PackSize == 5           \* the literal 5 of fetchPackFromApi and the fallbacks
NumPagesToTry == 2      \* pagesToTry holds two page numbers

Raw == 0                \* fetchedAt of a record that is not normalized
PastTime == 1           \* the instant of everything done before the run

\* Error objects: name and message.  "API error: <status> <statusText>" stands
\* for the message fetchJson builds.
NoError == [name |-> "none", message |-> ""]
AbortError == [name |-> "AbortError", message |-> "signal is aborted without reason"]
FailedToFetch == [name |-> "TypeError", message |-> "Failed to fetch"]
JsonSyntaxError == [name |-> "SyntaxError", message |-> "Unexpected token < in JSON at position 0"]
NullIdTypeError == [name |-> "TypeError", message |-> "Cannot read properties of null (reading 'id')"]
NoCardsError == [name |-> "Error", message |-> "no cards obtained"]

HttpStatuses == {401, 404, 408, 429, 500}

HttpError(status) ==
    [name |-> "Error",
     message |-> CASE status = 401 -> "API error: 401 Unauthorized"
                   [] status = 404 -> "API error: 404 Not Found"
                   [] status = 408 -> "API error: 408 Request Timeout"
                   [] status = 429 -> "API error: 429 Too Many Requests"
                   [] OTHER -> "API error: 500 Internal Server Error"]

\* String.prototype.includes over the messages above
Substrings ==
    {<<"Failed to fetch", "Failed to fetch">>, <<"Failed to fetch", "fetch">>,
     <<"offline", "offline">>,
     <<"API error: 401 Unauthorized", "API error: 401">>,
     <<"API error: 429 Too Many Requests", "API error: 429">>}

includes(message, probe) == <<message, probe>> \in Substrings

\* message.match(/API error:\s*(\d{3})/): the status, or 0 for no match
statusMatch(message) ==
    CASE message = "API error: 401 Unauthorized" -> 401
      [] message = "API error: 404 Not Found" -> 404
      [] message = "API error: 408 Request Timeout" -> 408
      [] message = "API error: 429 Too Many Requests" -> 429
      [] message = "API error: 500 Internal Server Error" -> 500
      [] OTHER -> 0

isRetryableError(error) ==
    \/ error.name = "AbortError"
    \/ includes(error.message, "Failed to fetch")
    \/ includes(error.message, "NetworkError")
    \/ includes(error.message, "Load failed")
    \/ includes(error.message, "fetch")

\* The retry decision of fetchJsonWithRetry's catch block
\* A mutant that retries after every HTTP error:
retryable_anyHttp(error) ==
    LET status == statusMatch(error.message)
    IN  isRetryableError(error) \/ status # 0

retryable(error) ==
    LET status == statusMatch(error.message)
        retryableHttp == status = 429 \/ status = 408 \/ (status # 0 /\ status >= 500)
    IN  isRetryableError(error) \/ retryableHttp

\* RETRY_BASE_DELAY_MS * Math.pow(2, attempt)
backoffDelay(n) == RETRY_BASE_DELAY_MS * (2 ^ n)

buildUserFacingErrorMessage(error) ==
    LET message == error.message
    IN  IF includes(message, "AbortError") THEN "timeout"
        ELSE IF includes(message, "Failed to fetch") \/ includes(message, "NetworkError")
                  \/ includes(message, "Load failed") THEN "network"
        ELSE IF includes(message, "CORS") THEN "cors"
        ELSE IF includes(message, "API error: 401") \/ includes(message, "API error: 403")
          THEN "auth"
        ELSE IF includes(message, "API error: 429") THEN "ratelimit"
        ELSE IF message # "" THEN message
        ELSE "card retrieval failed"

RemoveAt(s, k) == SubSeq(s, 1, k - 1) \o SubSeq(s, k + 1, Len(s))

\* Math.floor(Math.random() * n), as a 1-based index
RandomIndexes(n) == {((r * n) \div RandDen) + 1 : r \in 0..(RandDen - 1)}

\* sampleUnique(cards, count, existingIds): every run of the loop, one per
\* sequence of random draws; each run yields the result, the grown id set and
\* what is left of the copied pool.
\* A mutant that does not look at existingIds:
RECURSIVE sampleLoop_noSeen(_, _, _, _)
sampleLoop_noSeen(pool, count, ids, res) ==
    IF Len(pool) = 0 \/ Len(res) >= count
      THEN {[result |-> res, existingIds |-> ids, pool |-> pool]}
      ELSE UNION {
             LET candidate == pool[idx]
                 rest == RemoveAt(pool, idx)
             IN  IF candidate = NullEntry \/ candidate.id = NoId
                   THEN sampleLoop_noSeen(rest, count, ids, res)
                   ELSE sampleLoop_noSeen(rest, count, ids \cup {candidate.id},
                                          Append(res, candidate))
             : idx \in RandomIndexes(Len(pool))}

\* A mutant that leaves the loop at the first candidate it cannot take:
RECURSIVE sampleLoop_break(_, _, _, _)
sampleLoop_break(pool, count, ids, res) ==
    IF Len(pool) = 0 \/ Len(res) >= count
      THEN {[result |-> res, existingIds |-> ids, pool |-> pool]}
      ELSE UNION {
             LET candidate == pool[idx]
                 rest == RemoveAt(pool, idx)
             IN  IF candidate = NullEntry \/ candidate.id = NoId \/ candidate.id \in ids
                   THEN {[result |-> res, existingIds |-> ids, pool |-> rest]}
                 ELSE sampleLoop_break(rest, count, ids \cup {candidate.id},
                                       Append(res, candidate))
             : idx \in RandomIndexes(Len(pool))}

RECURSIVE sampleLoop(_, _, _, _)
sampleLoop(pool, count, ids, res) ==
    IF Len(pool) = 0 \/ Len(res) >= count
      THEN {[result |-> res, existingIds |-> ids, pool |-> pool]}
      ELSE UNION {
             LET candidate == pool[idx]
                 rest == RemoveAt(pool, idx)
             IN  IF candidate = NullEntry \/ candidate.id = NoId
                   THEN sampleLoop(rest, count, ids, res)
                 ELSE IF candidate.id \in ids
                   THEN sampleLoop(rest, count, ids, res)
                 ELSE sampleLoop(rest, count, ids \cup {candidate.id},
                                 Append(res, candidate))
             : idx \in RandomIndexes(Len(pool))}

sampleUnique(cards, count, ids) == sampleLoop(cards, count, ids, <<>>)

\* readApiCachePool(): the stored array, [] for anything else
readApiCachePool(store, mode) ==
    LET got == getItem(store, mode, API_CACHE_KEY)
        parsed == JSON_parse(got.text)
    IN  IF got.raised \/ got.text.kind \in {"absent", "empty"} THEN <<>>
        ELSE IF parsed.raised THEN <<>>
        ELSE IF parsed.isArray THEN parsed.items ELSE <<>>

\* pool.slice(-API_CACHE_LIMIT)
\* A mutant that keeps the whole pool:
trimmed_noLimit(pool) == pool

\* A mutant that keeps the entries at the front:
trimmed_keepsFront(pool) ==
    IF Len(pool) <= API_CACHE_LIMIT THEN pool ELSE SubSeq(pool, 1, API_CACHE_LIMIT)

trimmed(pool) ==
    IF Len(pool) <= API_CACHE_LIMIT THEN pool
    ELSE SubSeq(pool, Len(pool) - API_CACHE_LIMIT + 1, Len(pool))

\* writeApiCachePool(pool): a failed write is logged and dropped
writeApiCachePool(store, mode, pool) ==
    setItem(store, mode, API_CACHE_KEY, JSON_stringify(trimmed(pool))).store

\* getMockPack(): the five placeholder cards mock-001 .. mock-005
\* A mutant that leaves the last placeholder out:
getMockPack_short(now) == [k \in 1..4 |-> MkCard(9000 + k, now)]

getMockPack(now) == [k \in 1..5 |-> MkCard(9000 + k, now)]

normalizeCard(card, now) == MkCard(card.id, now)

\* getPackFromApiCache(): the possible returns; <<>> stands for null
\* A mutant that samples one card less:
getPackFromApiCache_four(store, mode) ==
    LET pool == readApiCachePool(store, mode)
    IN  IF Len(pool) < PackSize THEN {<<>>}
        ELSE {run.result : run \in sampleUnique(pool, PackSize - 1, {})}

getPackFromApiCache(store, mode) ==
    LET pool == readApiCachePool(store, mode)
    IN  IF Len(pool) < PackSize THEN {<<>>}
        ELSE {run.result : run \in sampleUnique(pool, PackSize, {})}

\* getPackFromCollection(): the possible returns; <<>> stands for null
\* A mutant that wants more than five stored cards:
getPackFromCollection_strict(store, mode) ==
    LET collection == getCollection(store, mode)
    IN  IF ~collection.isArray \/ Len(collection.items) <= PackSize THEN {<<>>}
        ELSE {run.result : run \in sampleUnique(collection.items, PackSize, {})}

getPackFromCollection(store, mode) ==
    LET collection == getCollection(store, mode)
    IN  IF ~collection.isArray \/ Len(collection.items) < PackSize THEN {<<>>}
        ELSE {run.result : run \in sampleUnique(collection.items, PackSize, {})}

NoResult == [cards |-> <<>>, source |-> "none", notice |-> <<>>, canSave |-> FALSE]

\* The catch block of openPack(): the possible results and what was called
\* A mutant that tries the Collection before the cache pool:
fallback_collectionFirst(store, mode, error, now) ==
    LET userMessage == buildUserFacingErrorMessage(error)
    IN  UNION {
          IF fromCollection # <<>>
            THEN {[result |-> [cards |-> fromCollection, source |-> "collection",
                               notice |-> <<userMessage, "collection">>, canSave |-> FALSE],
                   store |-> store,
                   called |-> {"getPackFromCollection"}]}
            ELSE {IF cached # <<>>
                    THEN [result |-> [cards |-> cached, source |-> "cache",
                                      notice |-> <<userMessage, "cache">>, canSave |-> TRUE],
                          store |-> store,
                          called |-> {"getPackFromApiCache", "getPackFromCollection"}]
                    ELSE [result |-> [cards |-> getMockPack(now), source |-> "mock",
                                      notice |-> <<userMessage, "mock">>, canSave |-> FALSE],
                          store |-> store,
                          called |-> {"getPackFromApiCache", "getPackFromCollection",
                                      "getMockPack"}]
                  : cached \in getPackFromApiCache(store, mode)}
          : fromCollection \in getPackFromCollection(store, mode)}

fallback(store, mode, error, now) ==
    LET userMessage == buildUserFacingErrorMessage(error)
    IN  UNION {
          IF cached # <<>>
            THEN {[result |-> [cards |-> cached, source |-> "cache",
                               notice |-> <<userMessage, "cache">>, canSave |-> TRUE],
                   store |-> store,
                   called |-> {"getPackFromApiCache"}]}
            ELSE {IF fromCollection # <<>>
                    THEN [result |-> [cards |-> fromCollection, source |-> "collection",
                                      notice |-> <<userMessage, "collection">>,
                                      canSave |-> FALSE],
                          store |-> store,
                          called |-> {"getPackFromApiCache", "getPackFromCollection"}]
                    ELSE [result |-> [cards |-> getMockPack(now), source |-> "mock",
                                      notice |-> <<userMessage, "mock">>, canSave |-> FALSE],
                          store |-> store,
                          called |-> {"getPackFromApiCache", "getPackFromCollection",
                                      "getMockPack"}]
                  : fromCollection \in getPackFromCollection(store, mode)}
          : cached \in getPackFromApiCache(store, mode)}

\* The cache pool after a live success: the pool followed by the normalized
\* cards whose id is not in the pool
\* A mutant that writes the pool back as it was read:
merged_noAppend(pool, normalized) == pool

\* A mutant that appends every normalized card, pooled or not:
merged_appendAll(pool, normalized) == pool \o normalized

merged(pool, normalized) ==
    LET existing == IdsOf(pool)
        fresh(c) == c.id # NoId /\ c.id \notin existing
    IN  pool \o SelectSeq(normalized, fresh)

\* The end of fetchPackFromApi(), once the page loop is over: throw when
\* nothing was selected, else normalize, merge into the cache pool and return
fetchPackFromApiEnd(store, mode, sel, err, now) ==
    LET sliced == SubSeq(sel, 1, IF Len(sel) < PackSize THEN Len(sel) ELSE PackSize)
        normalized == [k \in 1..Len(sliced) |-> normalizeCard(sliced[k], now)]
        pool == readApiCachePool(store, mode)
    IN  IF Len(sel) = 0
          THEN [raised |-> TRUE, error |-> IF err = NoError THEN NoCardsError ELSE err,
                cards |-> <<>>, store |-> store]
        ELSE IF HasNullEntry(pool)
          THEN [raised |-> TRUE, error |-> NullIdTypeError, cards |-> <<>>, store |-> store]
        ELSE [raised |-> FALSE, error |-> NoError, cards |-> normalized,
              store |-> writeApiCachePool(store, mode, merged(pool, normalized))]

\* What openPack() does with an error when it has no catch block
Thrown(error) ==
    [cards |-> <<>>, source |-> "raised", notice |-> <<error.message>>, canSave |-> FALSE]

\* The try/catch of openPack() around fetchPackFromApi(): the possible results
\* A mutant without the catch block:
openPackEnd_noCatch(store, mode, sel, err, now) ==
    LET r == fetchPackFromApiEnd(store, mode, sel, err, now)
    IN  IF r.raised
          THEN {[result |-> Thrown(r.error), store |-> store, called |-> {}]}
          ELSE {[result |-> [cards |-> r.cards, source |-> "api", notice |-> <<>>,
                             canSave |-> TRUE],
                 store |-> r.store,
                 called |-> {"readApiCachePool", "writeApiCachePool"}]}

\* A mutant that takes a pack of fewer than five cards for a failure:
openPackEnd_needsFull(store, mode, sel, err, now) ==
    LET r == fetchPackFromApiEnd(store, mode, sel, err, now)
    IN  IF r.raised \/ Len(r.cards) < PackSize
          THEN fallback(store, mode, IF r.raised THEN r.error ELSE NoCardsError, now)
          ELSE {[result |-> [cards |-> r.cards, source |-> "api", notice |-> <<>>,
                             canSave |-> TRUE],
                 store |-> r.store,
                 called |-> {"readApiCachePool", "writeApiCachePool"}]}

openPackEnd(store, mode, sel, err, now) ==
    LET r == fetchPackFromApiEnd(store, mode, sel, err, now)
    IN  IF r.raised
          THEN fallback(store, mode, r.error, now)
          ELSE {[result |-> [cards |-> r.cards, source |-> "api", notice |-> <<>>,
                             canSave |-> TRUE],
                 store |-> r.store,
                 called |-> {"readApiCachePool", "writeApiCachePool"}]}

\* The forced-mock test of openPack()
\* A mutant that looks at the build-time flag only:
forceMock_envOnly(byEnv, byQuery) == byEnv

forceMock(byEnv, byQuery) == byEnv \/ byQuery

----------------------------------------------------------------------------
(* The remote: what one fetchJson(url) call can end in *)
FullPage == [k \in 1..NumApiIds |-> MkCard(k, Raw)]
MixedPage == <<MkCard(NumApiIds, Raw), MkCard(NoId, Raw), NullEntry,
               MkCard(NumApiIds, Raw), MkCard(NumApiIds + 1, Raw)>>
EmptyPage == <<>>

Bodies == {FullPage, MixedPage, EmptyPage}

Outcomes ==
    {[raised |-> TRUE, error |-> e, shapeOk |-> FALSE, data |-> <<>>] :
        e \in {AbortError, FailedToFetch, JsonSyntaxError}
              \cup {HttpError(st) : st \in HttpStatuses}}
      \cup {[raised |-> FALSE, error |-> NoError, shapeOk |-> TRUE, data |-> b] : b \in Bodies}
      \cup {[raised |-> FALSE, error |-> NoError, shapeOk |-> FALSE, data |-> <<>>]}

\* fetch() itself rejects: the timer aborted it, or the network failed
FetchRejections == {o \in Outcomes : o.error \in {AbortError, FailedToFetch}}

\* fetch() resolved with a response: what reading it ends in, the error thrown
\* for a status that is not ok or by response.json(), or the parsed body
BodyOutcomes == Outcomes \ FetchRejections

\* fetchWithTimeout: the timers left once fetch() has settled.  A timer that
\* fired is gone; the finally block clears the one that did not.
\* A mutant that clears the timer on no path:
fetchWithTimeoutEnd_noClear(timers, fired) == IF fired THEN timers - 1 ELSE timers

fetchWithTimeoutEnd(timers, fired) == timers - 1

----------------------------------------------------------------------------
(* Actions of the pipeline *)

\* openPack() up to its first await: the forced-mock return, or the first
\* fetch of fetchPackFromApi()
OpenPackCall ==
    /\ pc = "idle"
    /\ clock' = clock + 1
    /\ pageIdx' = 1
    /\ attempt' = 0
    /\ caught' = NoError
    /\ delay' = 0
    /\ selected' = <<>>
    /\ existingIds' = {}
    /\ lastError' = NoError
    /\ allFailed' = TRUE
    /\ obtained' = 0
    /\ armedTimers' = IF forceMock(forceMockByEnv, forceMockByQuery)
                        THEN armedTimers ELSE armedTimers + 1
    /\ IF forceMock(forceMockByEnv, forceMockByQuery)
         THEN /\ result' = [cards |-> getMockPack(clock'), source |-> "mock",
                            notice |-> <<"forced mock">>, canSave |-> FALSE]
              /\ pc' = "returned"
              /\ fetched' = FALSE
              /\ called' = {"getMockPack"}
         ELSE /\ result' = NoResult
              /\ pc' = "request"
              /\ fetched' = TRUE
              /\ called' = {"fetchPackFromApi"}
    /\ UNCHANGED <<localStorage, storageMode, lastOp, forceMockByEnv, forceMockByQuery>>
    /\ UNCHANGED <<legacyVars, sideVars>>

\* openPack() called on its own
OpenPack ==
    /\ OpenPackCall
    /\ UNCHANGED page

\* The page loop of fetchPackFromApi() after the page at pageIdx is done:
\* fetch the next page, or leave the loop and finish
PageDone(sel, ids, err) ==
    /\ caught' = NoError
    /\ delay' = 0
    /\ IF pageIdx < NumPagesToTry /\ Len(sel) < PackSize
      THEN /\ selected' = sel
           /\ existingIds' = ids
           /\ lastError' = err
           /\ attempt' = 0
           /\ pageIdx' = pageIdx + 1
           /\ pc' = "request"
           /\ UNCHANGED <<localStorage, result, fetched, obtained, called>>
      ELSE /\ \E o \in openPackEnd(localStorage, storageMode, sel, err, clock) :
                 /\ result' = o.result
                 /\ localStorage' = o.store
                 /\ called' = called \cup o.called
           /\ obtained' = Len(sel)
           /\ pc' = "returned"
           /\ selected' = <<>>
           /\ existingIds' = {}
           /\ lastError' = LET r == fetchPackFromApiEnd(localStorage, storageMode, sel,
                                                        err, clock)
                            IN  IF r.raised THEN r.error ELSE NoError
           /\ attempt' = 0
           /\ pageIdx' = 1
           /\ UNCHANGED <<fetched>>

\* fetchJson() returns or raises with the given outcome, and the code runs on
\* to the next await or to the return of openPack()
FetchJsonEnds(outcome) ==
    /\ allFailed' = (allFailed /\ outcome.raised)
    /\ IF outcome.raised
         THEN IF retryable(outcome.error) /\ attempt # RETRY_COUNT
                THEN /\ pc' = "backoff"
                     /\ caught' = outcome.error
                     /\ delay' = backoffDelay(attempt)
                     /\ UNCHANGED <<localStorage, pageIdx, attempt, selected,
                                    existingIds, lastError, result, fetched,
                                    obtained, called>>
                ELSE PageDone(selected, existingIds, outcome.error)
         ELSE IF ~outcome.shapeOk
                THEN PageDone(selected, existingIds, lastError)
                ELSE \E run \in sampleUnique(outcome.data, PackSize - Len(selected),
                                            existingIds) :
                       PageDone(selected \o run.result, run.existingIds, lastError)
    /\ UNCHANGED <<storageMode, lastOp, forceMockByEnv, forceMockByQuery, clock, page>>
    /\ UNCHANGED <<legacyVars, sideVars>>

\* The fetch in flight settles, which releases its timer: fetch() rejects and
\* fetchJson() raises, or the response is there and fetchJson() goes on to
\* read its body.  A next fetch sets its own timer.
RequestSettles ==
    /\ pc = "request"
    /\ \/ \E outcome \in FetchRejections :
            /\ FetchJsonEnds(outcome)
            /\ armedTimers' = fetchWithTimeoutEnd(armedTimers, outcome.error = AbortError)
                                + (IF pc' = "request" THEN 1 ELSE 0)
       \/ /\ pc' = "body"
          /\ armedTimers' = fetchWithTimeoutEnd(armedTimers, FALSE)
          /\ UNCHANGED <<localStorage, storageMode, lastOp, forceMockByEnv,
                         forceMockByQuery, pageIdx, attempt, caught, delay, selected,
                         existingIds, lastError, result, fetched, allFailed, obtained,
                         called, clock, page>>
          /\ UNCHANGED <<legacyVars, sideVars>>

\* The body of the response has been read: response.text() and the throw for a
\* status that is not ok, or response.json()
BodySettles ==
    /\ pc = "body"
    /\ \E outcome \in BodyOutcomes :
         /\ FetchJsonEnds(outcome)
         /\ armedTimers' = armedTimers + (IF pc' = "request" THEN 1 ELSE 0)

\* sleep(delay) is over: the next attempt issues its fetch
BackoffElapses ==
    /\ pc = "backoff"
    /\ pc' = "request"
    /\ attempt' = attempt + 1
    /\ caught' = NoError
    /\ armedTimers' = armedTimers + 1
    /\ UNCHANGED <<localStorage, storageMode, lastOp, forceMockByEnv, forceMockByQuery,
                   pageIdx, delay, selected, existingIds, lastError, result,
                   fetched, allFailed, obtained, called, clock, page>>
    /\ UNCHANGED <<legacyVars, sideVars>>

----------------------------------------------------------------------------
(* HomePage: pages/HomePage.jsx *)

(* Bounds *)
MaxOpenings == 2    \* pack-openings in one behaviour

\* The React state after useState(), and what handleOpenPack sets before the
\* call.  error "" stands for null, notice <<>> for null.
PageAtRest == [cards |-> <<>>, loading |-> FALSE, error |-> "", notice |-> <<>>,
               saved |-> FALSE]
PageLoading == [cards |-> <<>>, loading |-> TRUE, error |-> "", notice |-> <<>>,
                saved |-> FALSE]

\* if (result.canSave)
\* A mutant that saves every pack:
shouldSave_always(r) == TRUE

shouldSave(r) == r.canSave

\* The button is pressed: handleOpenPack() runs up to its await, the start of
\* openPack() included.  The button is disabled while loading.
HandleOpenPack ==
    /\ ~page.loading
    /\ clock < PastTime + MaxOpenings
    /\ page' = PageLoading
    /\ OpenPackCall

\* openPack() has returned: handleOpenPack() runs from its await to its end.
\* An error raised by addToCollection is shown by its name.
HandleOpenPackResumes ==
    /\ pc = "returned"
    /\ pc' = "idle"
    /\ IF result.cards = <<>>
         THEN /\ page' = [page EXCEPT !.error = "no cards in the pack", !.loading = FALSE]
              /\ UNCHANGED <<localStorage, lastOp>>
         ELSE IF shouldSave(result)
           THEN LET r == addToCollection(localStorage, storageMode,
                                         [isArray |-> TRUE, items |-> result.cards])
                IN  /\ localStorage' = r.store
                    /\ lastOp' = [op |-> "add", raised |-> r.raised]
                    /\ page' = [cards |-> result.cards, loading |-> FALSE,
                                error |-> IF r.raised = "none" THEN "" ELSE r.raised,
                                notice |-> result.notice, saved |-> r.raised = "none"]
           ELSE /\ page' = [cards |-> result.cards, loading |-> FALSE, error |-> "",
                            notice |-> result.notice, saved |-> FALSE]
                /\ UNCHANGED <<localStorage, lastOp>>
    /\ UNCHANGED <<storageMode, forceMockByEnv, forceMockByQuery, pageIdx, attempt,
                   caught, delay, armedTimers, selected, existingIds, lastError, result,
                   fetched, allFailed, obtained, called, clock>>
    /\ UNCHANGED <<legacyVars, sideVars>>

\* A second run of handleOpenPack() that starts while the first one waits for
\* its openPack(): pc "none", "awaiting" (its own openPack() is under way) or
\* "done"; cards and canSave are those of its result, saved what setSaved got
NoOther == [pc |-> "none", cards |-> <<>>, canSave |-> FALSE, saved |-> FALSE]

\* What the page loop of the second run can end with: a full selection, or
\* two cards only
OtherSelections ==
    {SubSeq(FullPage, 1, PackSize),
     <<MkCard(NumApiIds + 1, Raw), MkCard(NumApiIds + 2, Raw)>>}

\* handleOpenPack() is entered again before the first run has resumed: it runs
\* up to its await
OtherOpens ==
    /\ pc \in {"request", "body", "backoff"}
    /\ other.pc = "none"
    /\ other' = [other EXCEPT !.pc = "awaiting"]
    /\ page' = PageLoading
    /\ UNCHANGED storeVars
    /\ UNCHANGED <<forceMockByEnv, forceMockByQuery, pc, pageIdx, attempt, caught, delay,
                   armedTimers, selected, existingIds, lastError, result, fetched,
                   allFailed, obtained, called, clock>>
    /\ UNCHANGED <<legacyVars, sampling>>

\* The openPack() of the second run returns and its handleOpenPack() runs on
\* to its end in the same turn: the end of fetchPackFromApi() with the cache
\* pool merge, then addToCollection
OtherCompletes ==
    /\ other.pc = "awaiting"
    /\ \E sel \in OtherSelections :
         \E o \in openPackEnd(localStorage, storageMode, sel, NoError, clock) :
           IF shouldSave(o.result)
             THEN LET r == addToCollection(o.store, storageMode,
                                           [isArray |-> TRUE, items |-> o.result.cards])
                  IN  /\ localStorage' = r.store
                      /\ lastOp' = [op |-> "add", raised |-> r.raised]
                      /\ other' = [pc |-> "done", cards |-> o.result.cards,
                                   canSave |-> TRUE, saved |-> r.raised = "none"]
                      /\ page' = [cards |-> o.result.cards, loading |-> FALSE,
                                  error |-> IF r.raised = "none" THEN "" ELSE r.raised,
                                  notice |-> o.result.notice, saved |-> r.raised = "none"]
             ELSE /\ localStorage' = o.store
                  /\ other' = [pc |-> "done", cards |-> o.result.cards,
                               canSave |-> FALSE, saved |-> FALSE]
                  /\ page' = [cards |-> o.result.cards, loading |-> FALSE, error |-> "",
                              notice |-> o.result.notice, saved |-> FALSE]
                  /\ UNCHANGED lastOp
    /\ UNCHANGED storageMode
    /\ UNCHANGED <<forceMockByEnv, forceMockByQuery, pc, pageIdx, attempt, caught, delay,
                   armedTimers, selected, existingIds, lastError, result, fetched,
                   allFailed, obtained, called, clock>>
    /\ UNCHANGED <<legacyVars, sampling>>

----------------------------------------------------------------------------
(* The earlier pipeline: utils/api.js with fetchRandomCards() *)

(* Bounds *)
NumParallel == 2    \* page requests one fetchRandomCards() runs in parallel
                    \* (PARALLEL_REQUESTS, 5 in the source)

(* Program constants *)
MAX_RETRIES == 3
RETRY_DELAY_BASE == 1000
CARDS_NEEDED == 5

\* "offline" stands for the message of the error thrown when navigator.onLine
\* is false
Offline == [name |-> "Error", message |-> "offline"]
NoValidCards == [name |-> "Error", message |-> "no cards obtained from any request"]

\* isRetryableError in the catch block of the earlier fetchWithTimeout
legacyRetryable(error) ==
    \/ error.name = "AbortError"
    \/ error.name = "TypeError"
    \/ includes(error.message, "Failed to fetch")
    \/ includes(error.message, "Load failed")
    \/ includes(error.message, "NetworkError")
    \/ includes(error.message, "offline")

\* RETRY_DELAY_BASE * Math.pow(2, retryCount)
\* A mutant whose wait grows by the base delay each time:
retryDelay_linear(retryCount) == RETRY_DELAY_BASE * (retryCount + 1)

retryDelay(retryCount) == RETRY_DELAY_BASE * (2 ^ retryCount)

\* The message fetchRandomCards() rejects with, from the error its catch block got
fetchRandomCardsError(error, online) ==
    LET message == error.message
    IN  IF includes(message, "timeout") \/ includes(message, "AbortError")
          THEN <<"connection timeout">>
        ELSE IF includes(message, "Failed to fetch") \/ includes(message, "NetworkError")
                  \/ includes(message, "Load failed")
          THEN IF ~online THEN <<"offline">> ELSE <<"network error">>
        ELSE IF includes(message, "CORS") THEN <<"cors">>
        ELSE <<"API error", message>>

Requests == 1..NumParallel

\* Identifiers of the cards a page can hold; NoId is a card without one
LegacyCardIds == {NoId, 1, 2}

\* One page request: pc "absent" (the build has no fetchRandomCards), "idle",
\* "fetch" (in flight), "sleep" (waiting to retry), "settled"; value is what the
\* request's callback returned, "card" (with the identifier in card) or "null";
\* timers counts the timeout timers set for the request and not yet released;
\* failure is the error the callback caught, if any
Request(p, n, d, v) == [pc |-> p, retryCount |-> n, delay |-> d, value |-> v,
                        card |-> NoId, timers |-> 0, failure |-> NoError]

NoRandomCards == [status |-> "none", message |-> <<>>, cards |-> <<>>]

\* What one attempt of the earlier fetchWithTimeout can end in; a response
\* goes to the callback, which picks the card with identifier id from it
LegacyOutcomes ==
    {[raised |-> TRUE, error |-> e, ok |-> FALSE, hasData |-> FALSE, id |-> NoId] :
        e \in {AbortError, FailedToFetch, Offline}}
      \cup {[raised |-> FALSE, error |-> NoError, ok |-> TRUE, hasData |-> TRUE, id |-> k] :
               k \in LegacyCardIds}
      \cup {[raised |-> FALSE, error |-> NoError, ok |-> TRUE, hasData |-> FALSE, id |-> NoId],
            [raised |-> FALSE, error |-> NoError, ok |-> FALSE, hasData |-> FALSE, id |-> NoId]}

\* getCachedData(url) for the URL of a request: nothing, or a stored response
\* from which the callback picks the card with identifier id
CacheLookups ==
    {[hit |-> FALSE, hasData |-> FALSE, id |-> NoId],
     [hit |-> TRUE, hasData |-> FALSE, id |-> NoId]}
      \cup {[hit |-> TRUE, hasData |-> TRUE, id |-> k] : k \in LegacyCardIds}

\* The earlier fetchWithTimeout: the timers left once an attempt has settled.
\* clearTimeout follows the response, and opens the catch block.
legacyTimeoutEnd(timers, raised) == timers - 1

\* fetchRandomCards() up to its await: every request is started, which sets
\* its timer; one whose URL is in the response cache settles without a fetch
\* and without a timer
FetchRandomCards ==
    /\ \A i \in Requests : cardPromises[i].pc = "idle"
    /\ \E cached \in [Requests -> CacheLookups] :
         cardPromises' = [i \in Requests |->
                            IF ~cached[i].hit
                              THEN [Request("fetch", 0, 0, "none") EXCEPT !.timers = 1]
                            ELSE IF ~cached[i].hasData
                              THEN Request("settled", 0, 0, "null")
                            ELSE [Request("settled", 0, 0, "card")
                                    EXCEPT !.card = cached[i].id]]
    /\ randomCards' = [NoRandomCards EXCEPT !.status = "pending"]
    /\ UNCHANGED storeVars
    /\ UNCHANGED <<openPackVars, sideVars>>

\* The fetch of request i settles: the response goes to the callback, which
\* returns a card or null; an error is retried after the wait, or reaches the
\* callback, which returns null
AttemptSettles(i) ==
    /\ cardPromises[i].pc = "fetch"
    /\ \E o \in LegacyOutcomes :
         LET retryCount == cardPromises[i].retryCount
             timers == legacyTimeoutEnd(cardPromises[i].timers, o.raised)
         IN  cardPromises' = [cardPromises EXCEPT ![i] =
               IF o.raised
                 THEN IF legacyRetryable(o.error) /\ retryCount < MAX_RETRIES
                        THEN [Request("sleep", retryCount, retryDelay(retryCount), "none")
                                EXCEPT !.timers = timers]
                        ELSE [Request("settled", 0, 0, "null")
                                EXCEPT !.timers = timers, !.failure = o.error]
                 ELSE IF o.ok /\ o.hasData
                        THEN [Request("settled", 0, 0, "card")
                                EXCEPT !.timers = timers, !.card = o.id]
                        ELSE [Request("settled", 0, 0, "null") EXCEPT !.timers = timers]]
    /\ UNCHANGED randomCards
    /\ UNCHANGED storeVars
    /\ UNCHANGED <<openPackVars, sideVars>>

\* The wait of request i is over: fetchWithTimeout calls itself with
\* nextRetry, and the new call sets its own timer
RetryDelayElapses(i) ==
    /\ cardPromises[i].pc = "sleep"
    /\ cardPromises' = [cardPromises EXCEPT ![i].pc = "fetch",
                                            ![i].retryCount = cardPromises[i].retryCount + 1,
                                            ![i].timers = cardPromises[i].timers + 1]
    /\ UNCHANGED randomCards
    /\ UNCHANGED storeVars
    /\ UNCHANGED <<openPackVars, sideVars>>

\* results.filter(card => card !== null), as the identifiers in request order
RECURSIVE validCardsFrom(_, _)
validCardsFrom(promises, i) ==
    IF i > NumParallel THEN <<>>
    ELSE (IF promises[i].value = "card" THEN <<promises[i].card>> ELSE <<>>)
           \o validCardsFrom(promises, i + 1)

\* The loop over validCards with seenIds: the first card of each identifier.
\* A mutant that gives up the pack when a request returned null:
uniqueCardsOf_allOrNothing(validCards) ==
    IF Len(validCards) < NumParallel THEN <<>> ELSE validCards

uniqueCardsOf(validCards) ==
    LET idx == {k \in 1..Len(validCards) :
                  \A j \in 1..(k - 1) : validCards[j] # validCards[k]}
        RECURSIVE pick(_)
        pick(k) == IF k > Len(validCards) THEN <<>>
                   ELSE (IF k \in idx THEN <<validCards[k]>> ELSE <<>>) \o pick(k + 1)
    IN  pick(1)

\* Promise.all resolves: fetchRandomCards() returns the distinct cards among
\* the valid ones, at most CARDS_NEEDED of them, or rejects when no request
\* returned a card
PromiseAllResolves ==
    /\ randomCards.status = "pending"
    /\ \A i \in Requests : cardPromises[i].pc = "settled"
    /\ LET validCards == validCardsFrom(cardPromises, 1)
           uniqueCards == uniqueCardsOf(validCards)
       IN  IF validCards = <<>>
             THEN \E online \in BOOLEAN :
                    randomCards' = [status |-> "rejected",
                                    message |-> fetchRandomCardsError(NoValidCards, online),
                                    cards |-> <<>>]
             ELSE randomCards' = [status |-> "resolved", message |-> <<>>,
                                  cards |-> SubSeq(uniqueCards, 1,
                                                   IF Len(uniqueCards) < CARDS_NEEDED
                                                     THEN Len(uniqueCards) ELSE CARDS_NEEDED)]
    /\ UNCHANGED cardPromises
    /\ UNCHANGED storeVars
    /\ UNCHANGED <<openPackVars, sideVars>>

----------------------------------------------------------------------------
(* Actions of the Collection Store *)

AddToCollection ==
    \E cards \in AddArgs :
      LET r == addToCollection(localStorage, storageMode, cards)
      IN  /\ localStorage' = r.store
          /\ lastOp' = [op |-> "add", raised |-> r.raised]
          /\ UNCHANGED <<storageMode>>
          /\ UNCHANGED packVars

ImportCollection ==
    \E jsonString \in ImportTexts :
      LET r == importCollection(localStorage, storageMode, jsonString)
      IN  /\ localStorage' = r.store
          /\ lastOp' = [op |-> "import", raised |-> r.raised]
          /\ UNCHANGED <<storageMode>>
          /\ UNCHANGED packVars

\* The export/import round trip: importCollection(exportCollection())
ExportThenImport ==
    LET jsonString == exportCollection(localStorage, storageMode)
        r == importCollection(localStorage, storageMode, jsonString)
    IN  /\ localStorage' = r.store
        /\ lastOp' = [op |-> "roundtrip", raised |-> r.raised]
        /\ UNCHANGED <<storageMode>>
        /\ UNCHANGED packVars

ClearCollection ==
    /\ localStorage' = clearCollection(localStorage, storageMode)
    /\ lastOp' = [op |-> "clear", raised |-> "none"]
    /\ UNCHANGED <<storageMode>>
    /\ UNCHANGED packVars

\* The browser's storage becomes full or denied, or usable again
StorageModes == {"ok", "full", "denied"}

StorageModeChanges ==
    /\ \E m \in StorageModes \ {storageMode} : storageMode' = m
    /\ lastOp' = NoOp
    /\ UNCHANGED <<localStorage>>
    /\ UNCHANGED packVars

----------------------------------------------------------------------------
(* sampleUnique() called on its own *)

(* Bounds *)
MaxSampleLen == 3   \* length of the array handed to sampleUnique(), and count

\* Entries of the array: cards, two of them with the same identifier, a card
\* without identifier and null
SampleCards == {MkCard(1, Raw), MkCard(1, PastTime), MkCard(2, Raw), MkCard(NoId, Raw),
                NullEntry}

NoSample == [cards |-> <<>>, count |-> 0, chosen |-> {}, done |-> FALSE,
             result |-> <<>>, existingIds |-> {}, pool |-> <<>>]

\* The arguments of a call, existingIds being a set the caller has filled
SampleArgs ==
    {[NoSample EXCEPT !.cards = c, !.count = n, !.chosen = ch, !.existingIds = ch,
                      !.pool = c] :
        c \in SeqsUpTo(SampleCards, MaxSampleLen), n \in 0..MaxSampleLen,
        ch \in SUBSET {1, 3}}

\* sampleUnique(cards, count, existingIds) runs from its first line to its return
SampleUnique ==
    /\ ~sampling.done
    /\ \E run \in sampleUnique(sampling.cards, sampling.count, sampling.chosen) :
         sampling' = [sampling EXCEPT !.done = TRUE, !.result = run.result,
                                      !.existingIds = run.existingIds,
                                      !.pool = run.pool]
    /\ UNCHANGED storeVars
    /\ UNCHANGED <<openPackVars, legacyVars, other>>

----------------------------------------------------------------------------
(* Specifications *)

EmptyStorage == [k \in {STORAGE_KEY, API_CACHE_KEY} |-> Absent]

PackIdle ==
    /\ pc = "idle"
    /\ pageIdx = 1
    /\ attempt = 0
    /\ caught = NoError
    /\ delay = 0
    /\ armedTimers = 0
    /\ selected = <<>>
    /\ existingIds = {}
    /\ lastError = NoError
    /\ result = NoResult
    /\ fetched = FALSE
    /\ allFailed = TRUE
    /\ obtained = 0
    /\ called = {}
    /\ clock = PastTime
    /\ page = PageAtRest
    /\ cardPromises = [i \in Requests |-> Request("absent", 0, 0, "none")]
    /\ randomCards = NoRandomCards

\* The Collection Store alone, from an empty store
StoreInit ==
    /\ localStorage = EmptyStorage
    /\ storageMode = "ok"
    /\ lastOp = NoOp
    /\ forceMockByEnv = FALSE
    /\ forceMockByQuery = FALSE
    /\ PackIdle
    /\ sampling = NoSample
    /\ other = NoOther

StoreNext ==
    \/ AddToCollection
    \/ ImportCollection
    \/ ExportThenImport
    \/ ClearCollection
    \/ StorageModeChanges

StoreSpec == StoreInit /\ [][StoreNext]_vars

\* The pipeline, from storage that only this program has written: no
\* Collection or one saved earlier, an empty cache pool or one that earlier
\* pack-openings have filled to just below the cap
SavedCard(k) == MkCard(k, PastTime)

SavedCollection == [k \in 1..PackSize |-> SavedCard(k)]

SmallPool == [k \in 1..PackSize |-> SavedCard(k + 1)]

NearFullPool ==
    [k \in 1..(API_CACHE_LIMIT - 2) |-> IF k <= 2 THEN SavedCard(k) ELSE SavedCard(1000 + k)]

ProgramWritten(collections, pools) ==
    {[k \in {STORAGE_KEY, API_CACHE_KEY} |-> IF k = STORAGE_KEY THEN c ELSE p] :
        c \in collections, p \in pools}

Init ==
    /\ localStorage \in
         {[k \in {STORAGE_KEY, API_CACHE_KEY} |-> IF k = STORAGE_KEY THEN c ELSE p] :
            c \in {Absent, JSON_stringify(SavedCollection)},
            p \in {Absent, JSON_stringify(SmallPool), JSON_stringify(NearFullPool)}}
    /\ storageMode \in StorageModes
    /\ lastOp = NoOp
    /\ forceMockByEnv \in BOOLEAN
    /\ forceMockByQuery \in BOOLEAN
    /\ PackIdle
    /\ sampling = NoSample
    /\ other = NoOther

Next == OpenPack \/ RequestSettles \/ BodySettles \/ BackoffElapses

Spec == Init /\ [][Next]_vars

\* One openPack() call from empty storage
LiveInit ==
    /\ localStorage = EmptyStorage
    /\ storageMode \in StorageModes
    /\ lastOp = NoOp
    /\ forceMockByEnv = FALSE
    /\ forceMockByQuery = FALSE
    /\ PackIdle
    /\ sampling = NoSample
    /\ other = NoOther

\* What the scheduling of one openPack() call guarantees: a pending fetch()
\* settles, at the latest when its timer aborts it after REQUEST_TIMEOUT_MS,
\* and a sleep() ends.  Nothing bounds the reading of a response body: the
\* timer is cleared as soon as fetch() has resolved.
LiveSpec ==
    LiveInit /\ [][Next]_vars /\ WF_vars(RequestSettles) /\ WF_vars(BackoffElapses)

\* The two builds of the pipeline: the build with openPack(), from an empty
\* store, and the earlier build, whose call is fetchRandomCards()
BuildsInit ==
    /\ localStorage = EmptyStorage
    /\ storageMode = "ok"
    /\ lastOp = NoOp
    /\ forceMockByEnv = FALSE
    /\ forceMockByQuery = FALSE
    /\ pageIdx = 1
    /\ attempt = 0
    /\ caught = NoError
    /\ delay = 0
    /\ armedTimers = 0
    /\ selected = <<>>
    /\ existingIds = {}
    /\ lastError = NoError
    /\ result = NoResult
    /\ fetched = FALSE
    /\ allFailed = TRUE
    /\ obtained = 0
    /\ called = {}
    /\ clock = PastTime
    /\ page = PageAtRest
    /\ randomCards = NoRandomCards
    /\ sampling = NoSample
    /\ other = NoOther
    /\ \/ /\ pc = "idle"
          /\ cardPromises = [i \in Requests |-> Request("absent", 0, 0, "none")]
       \/ /\ pc = "absent"
          /\ cardPromises = [i \in Requests |-> Request("idle", 0, 0, "none")]

BuildsNext ==
    \/ OpenPack
    \/ RequestSettles
    \/ BodySettles
    \/ BackoffElapses
    \/ FetchRandomCards
    \/ \E i \in Requests : AttemptSettles(i)
    \/ \E i \in Requests : RetryDelayElapses(i)
    \/ PromiseAllResolves

BuildsSpec == BuildsInit /\ [][BuildsNext]_vars

\* The last pack-opening of a session with storage that works, and a second
\* run of the handler that overlaps it
OverlapInit ==
    /\ localStorage \in ProgramWritten({Absent, JSON_stringify(SavedCollection)},
                                       {Absent, JSON_stringify(SmallPool)})
    /\ storageMode = "ok"
    /\ lastOp = NoOp
    /\ forceMockByEnv = FALSE
    /\ forceMockByQuery = FALSE
    /\ pc = "idle"
    /\ pageIdx = 1
    /\ attempt = 0
    /\ caught = NoError
    /\ delay = 0
    /\ armedTimers = 0
    /\ selected = <<>>
    /\ existingIds = {}
    /\ lastError = NoError
    /\ result = NoResult
    /\ fetched = FALSE
    /\ allFailed = TRUE
    /\ obtained = 0
    /\ called = {}
    /\ clock = PastTime + MaxOpenings - 1
    /\ page = PageAtRest
    /\ cardPromises = [i \in Requests |-> Request("absent", 0, 0, "none")]
    /\ randomCards = NoRandomCards
    /\ sampling = NoSample
    /\ other = NoOther

OverlapNext ==
    \/ HandleOpenPack
    \/ RequestSettles
    \/ BodySettles
    \/ BackoffElapses
    \/ HandleOpenPackResumes
    \/ OtherOpens
    \/ OtherCompletes

OverlapSpec == OverlapInit /\ [][OverlapNext]_vars

\* One sampleUnique() call for every array, count and identifier set within
\* the bounds
SampleInit ==
    /\ localStorage = EmptyStorage
    /\ storageMode = "ok"
    /\ lastOp = NoOp
    /\ forceMockByEnv = FALSE
    /\ forceMockByQuery = FALSE
    /\ PackIdle
    /\ sampling \in SampleArgs
    /\ other = NoOther

SampleNext == SampleUnique

SampleSpec == SampleInit /\ [][SampleNext]_vars

\* The page: pack-openings by the button, one after the other, from storage
\* that only this program has written.  Storage that accepts writes starts
\* with a Collection saved earlier and a cache pool that holds every card the
\* remote serves; storage that refuses them starts with each of the four
\* contents and keeps it.
WholePool == [k \in 1..(NumApiIds + 1) |-> SavedCard(k)]

PageInit ==
    /\ \/ /\ storageMode = "ok"
          /\ localStorage \in ProgramWritten({JSON_stringify(SavedCollection)},
                                             {JSON_stringify(WholePool)})
       \/ /\ storageMode \in {"full", "denied"}
          /\ localStorage \in ProgramWritten({Absent, JSON_stringify(SavedCollection)},
                                             {Absent, JSON_stringify(SmallPool)})
    /\ lastOp = NoOp
    /\ forceMockByEnv \in BOOLEAN
    /\ forceMockByQuery \in BOOLEAN
    /\ PackIdle
    /\ sampling = NoSample
    /\ other = NoOther

PageNext ==
    HandleOpenPack \/ RequestSettles \/ BodySettles \/ BackoffElapses \/ HandleOpenPackResumes

PageSpec == PageInit /\ [][PageNext]_vars

\* A session of the page that began with an empty store: pack-openings by the
\* button and clearCollection() calls, which the Collection page makes at any
\* time.  The store is still empty, or an earlier pack-opening of the session
\* has saved its pack and merged it into the cache pool.  With storage that
\* accepts writes and the remote in use, the session is at its last opening.
FirstPack == [k \in 1..PackSize |-> SavedCard(k)]

SessionInit ==
    /\ localStorage \in {EmptyStorage} \cup ProgramWritten({JSON_stringify(FirstPack)},
                                                           {JSON_stringify(FirstPack)})
    /\ storageMode \in StorageModes
    /\ lastOp = NoOp
    /\ forceMockByEnv \in BOOLEAN
    /\ forceMockByQuery \in BOOLEAN
    /\ pc = "idle"
    /\ pageIdx = 1
    /\ attempt = 0
    /\ caught = NoError
    /\ delay = 0
    /\ armedTimers = 0
    /\ selected = <<>>
    /\ existingIds = {}
    /\ lastError = NoError
    /\ result = NoResult
    /\ fetched = FALSE
    /\ allFailed = TRUE
    /\ obtained = 0
    /\ called = {}
    /\ clock = IF storageMode = "ok" /\ ~forceMock(forceMockByEnv, forceMockByQuery)
                 THEN PastTime + MaxOpenings - 1 ELSE PastTime
    /\ page = PageAtRest
    /\ cardPromises = [i \in Requests |-> Request("absent", 0, 0, "none")]
    /\ randomCards = NoRandomCards
    /\ sampling = NoSample
    /\ other = NoOther

SessionNext ==
    \/ HandleOpenPack
    \/ RequestSettles
    \/ BodySettles
    \/ BackoffElapses
    \/ HandleOpenPackResumes
    \/ ClearCollection

SessionSpec == SessionInit /\ [][SessionNext]_vars

\* What the scheduling of the page guarantees, for sessions whose store is
\* still empty: as in one openPack() call, a pending fetch() settles and a
\* sleep() ends; and once the promise of openPack() is settled, the rest of
\* handleOpenPack() runs.  Nothing makes the user press the button, and
\* nothing bounds the reading of a response body.
PageLiveInit == SessionInit /\ localStorage = EmptyStorage

PageLiveSpec ==
    /\ PageLiveInit
    /\ [][PageNext]_vars
    /\ WF_vars(RequestSettles)
    /\ WF_vars(BackoffElapses)
    /\ WF_vars(HandleOpenPackResumes)

\* The pipeline from storage of any content.  Full storage reads as usable
\* storage does and denied storage reads as nothing whatever it holds, so these
\* two modes are taken with two contents only.
AnyArrays ==
    {[k \in 1..(PackSize - 1) |-> SavedCard(k)],
     [k \in 1..PackSize |-> SavedCard(k)],
     [k \in 1..PackSize |-> SavedCard(k - 1)],
     [k \in 1..(PackSize + 1) |-> SavedCard(IF k <= PackSize THEN 1 ELSE 2)],
     [k \in 1..PackSize |-> SavedCard(NoId)],
     <<SavedCard(1), NullEntry, SavedCard(2), SavedCard(NoId), SavedCard(1)>>}

AnyTexts ==
    {Absent, MalformedText, OtherJsonText} \cup {JSON_stringify(a) : a \in AnyArrays}

AnyInit ==
    /\ \/ /\ storageMode = "ok"
          /\ localStorage \in [{STORAGE_KEY, API_CACHE_KEY} -> AnyTexts]
       \/ /\ storageMode \in {"full", "denied"}
          /\ localStorage \in [{STORAGE_KEY, API_CACHE_KEY} ->
                                 {MalformedText, JSON_stringify(SavedCollection)}]
    /\ lastOp = NoOp
    /\ forceMockByEnv \in BOOLEAN
    /\ forceMockByQuery \in BOOLEAN
    /\ PackIdle
    /\ sampling = NoSample
    /\ other = NoOther

AnySpec == AnyInit /\ [][Next]_vars

----------------------------------------------------------------------------
(* What the claims speak of *)

\* The cache pool and the Collection as the program reads them
CachePool == readApiCachePool(localStorage, storageMode)
Collection == getCollection(localStorage, storageMode)

StoredCollection == localStorage[STORAGE_KEY].items
StoredPool == localStorage[API_CACHE_KEY].items

Returned == pc = "returned"
Forced == forceMockByEnv \/ forceMockByQuery
AllRequestsFailed == fetched /\ allFailed

PairwiseDistinctIds(items) ==
    \A i, j \in 1..Len(items) : i # j => items[i].id # items[j].id

\* No two records carry the same identifier (entries that are null or have no
\* identifier are not counted)
NoRepeatedId(items) ==
    \A i, j \in 1..Len(items) :
        (i # j /\ items[i] # NullEntry /\ items[i].id # NoId) => items[i].id # items[j].id

DistinctIdCount(items) ==
    Cardinality({items[k].id : k \in {n \in 1..Len(items) : items[n] # NullEntry}})

\* A sequence a fallback tier can draw a pack from: five entries or more, one
\* of them at least with an identifier
CanSupply(items) ==
    /\ Len(items) >= 5
    /\ \E k \in 1..Len(items) : items[k] # NullEntry /\ items[k].id # NoId

FallbackFns == {"getPackFromApiCache", "getPackFromCollection", "getMockPack"}

----------------------------------------------------------------------------
(* C1: every openPack() call that returns, returns between 1 and 5 cards
   whose identifiers are pairwise distinct, whichever tier produced them and
   whatever the cache pool and the Collection held. *)
C1_PackOfDistinctCards ==
    Returned =>
        /\ Len(result.cards) >= 1
        /\ Len(result.cards) <= 5
        /\ PairwiseDistinctIds(result.cards)

\* a cache-tier pack drawn from a pool that repeats identifiers
C1_Witness ==
    /\ Returned
    /\ result.source = "cache"
    /\ ~PairwiseDistinctIds(CachePool)
    /\ Len(result.cards) >= 2

(* C2: openPack() never raises because of a remote failure: whatever the
   requests end in and whatever the two storage keys hold, it returns a result
   of one of the four tiers with a non-empty cards list. *)
C2_NeverRaises ==
    Returned =>
        /\ result.source \in {"api", "cache", "collection", "mock"}
        /\ result.cards # <<>>

\* both pages failed on every attempt, over storage that does not parse
C2_Witness ==
    /\ Returned
    /\ AllRequestsFailed
    /\ localStorage[API_CACHE_KEY] = MalformedText
    /\ localStorage[STORAGE_KEY] = OtherJsonText
    /\ result.source = "mock"

(* C3: when every live request of the call failed and the cache pool holds at
   least five cards with distinct identifiers, the result has source=cache and
   canSave=true, and neither the Collection tier nor the mock tier was used. *)
C3_CacheTier ==
    (Returned /\ AllRequestsFailed /\ DistinctIdCount(CachePool) >= 5) =>
        /\ result.source = "cache"
        /\ result.canSave
        /\ called \cap {"getPackFromCollection", "getMockPack"} = {}

\* the cache tier answered although the Collection could have supplied a pack
C3_Witness ==
    /\ Returned
    /\ AllRequestsFailed
    /\ DistinctIdCount(CachePool) >= 5
    /\ Collection.isArray
    /\ DistinctIdCount(Collection.items) >= 5
    /\ result.source = "cache"

(* C4: when every live request of the call failed, the cache pool cannot
   supply a pack, and the Collection holds at least five cards with distinct
   identifiers, the result has source=collection and canSave=false. *)
C4_CollectionTier ==
    (/\ Returned
     /\ AllRequestsFailed
     /\ ~CanSupply(CachePool)
     /\ Collection.isArray
     /\ DistinctIdCount(Collection.items) >= 5) =>
        /\ result.source = "collection"
        /\ ~result.canSave

\* a collection-tier pack from a Collection of exactly five cards
C4_Witness ==
    /\ Returned
    /\ AllRequestsFailed
    /\ Len(CachePool) < 5
    /\ Len(Collection.items) = 5
    /\ result.source = "collection"
    /\ Len(result.cards) = 5

(* C5: when the live path obtained no card and neither the cache pool nor the
   Collection can supply a pack, openPack() returns source=mock, canSave=false
   and exactly the five fixed placeholder cards. *)
C5_MockTier ==
    (/\ Returned
     /\ fetched
     /\ obtained = 0
     /\ ~CanSupply(CachePool)
     /\ ~(Collection.isArray /\ CanSupply(Collection.items))) =>
        /\ result.source = "mock"
        /\ ~result.canSave
        /\ Len(result.cards) = 5
        /\ \A k \in 1..5 : result.cards[k].id = 9000 + k

\* the mock tier answered after both other tiers were asked; the pool has five
\* entries, none with an identifier
C5_Witness ==
    /\ Returned
    /\ fetched
    /\ obtained = 0
    /\ Len(CachePool) >= 5
    /\ {"getPackFromApiCache", "getPackFromCollection"} \subseteq called
    /\ result.source = "mock"

(* C6: when the forced-mock override is active (query parameter or build-time
   flag), openPack() issues no network request, reads neither the cache pool
   nor the Collection, and returns the fixed mock set with source=mock and
   canSave=false. *)
C6_ForcedMock ==
    Forced =>
        /\ ~fetched
        /\ pc \in {"idle", "returned"}
        /\ Returned =>
             /\ called = {"getMockPack"}
             /\ result.source = "mock"
             /\ ~result.canSave
             /\ Len(result.cards) = 5
             /\ \A k \in 1..5 : result.cards[k].id = 9000 + k

\* forced by the query parameter alone, over a cache pool that could supply
C6_Witness ==
    /\ Returned
    /\ forceMockByQuery
    /\ ~forceMockByEnv
    /\ CanSupply(CachePool)
    /\ result.source = "mock"

(* C7: whenever the live path obtains at least one card, openPack() returns
   source=api, canSave=true and notice=null, and no fallback tier is
   consulted. *)
C7_LiveSuccess ==
    (Returned /\ obtained > 0) =>
        /\ result.source = "api"
        /\ result.canSave
        /\ result.notice = <<>>
        /\ called \cap FallbackFns = {}

\* a pack of fewer than five cards, its cache write refused by full storage
C7_Witness ==
    /\ Returned
    /\ obtained > 0
    /\ obtained < 5
    /\ storageMode = "full"
    /\ result.source = "api"
    /\ Len(result.cards) = obtained

(* C8: in every state reachable by addToCollection, importCollection and
   clearCollection calls from an empty store, the stored Collection never
   contains two records with the same identifier. *)
C8_NoDuplicateInCollection == NoRepeatedId(StoredCollection)

(* C9: after any sequence of openPack() calls the stored cache pool never
   holds more than the cap of 200 cards. *)
C9_PoolWithinCap == Len(StoredPool) <= API_CACHE_LIMIT

\* a live success filled the pool to the cap and evicted its oldest entry
C9_Witness ==
    /\ Returned
    /\ result.source = "api"
    /\ Len(StoredPool) = API_CACHE_LIMIT
    /\ StoredPool[1] # NearFullPool[1]

(* C10: addToCollection is idempotent: for any stored Collection and any card
   set, calling it twice in a row with that set leaves the same stored
   Collection as calling it once. *)
C10_AddIdempotent ==
    \A cards \in AddArgs :
        LET once == addToCollection(localStorage, storageMode, cards)
            twice == addToCollection(once.store, storageMode, cards)
        IN  twice.store = once.store

\* addToCollection has stored cards, and a further call would store more
C10_Witness ==
    /\ lastOp = [op |-> "add", raised |-> "none"]
    /\ Len(StoredCollection) >= 2
    /\ \E cards \in AddArgs :
          addToCollection(localStorage, storageMode, cards).store # localStorage

(* C11: addToCollection is append-unique and order-preserving: when it
   succeeds, the previously stored Collection is an unchanged prefix of the new
   one (no stored record is overwritten by a given card with its identifier),
   and what follows the prefix is the given cards whose identifier was not yet
   stored, in the order given. *)
C11_AppendUnique ==
    \A cards \in AddArgs :
        LET r == addToCollection(localStorage, storageMode, cards)
            before == StoredCollection
            after == r.store[STORAGE_KEY].items
            notYetStored(card) == card.id \notin IdsOf(before)
        IN  r.raised = "none" =>
              /\ Len(after) >= Len(before)
              /\ SubSeq(after, 1, Len(before)) = before
              /\ SubSeq(after, Len(before) + 1, Len(after))
                   = SelectSeq(cards.items, notYetStored)

\* addToCollection has stored two cards, and a call with a newer record of a
\* stored identifier and a new card would append the new card only
C11_Witness ==
    /\ lastOp = [op |-> "add", raised |-> "none"]
    /\ StoredCollection = <<MkCard(2, 1), MkCard(1, 1)>>
    /\ addToCollection(localStorage, storageMode,
                       [isArray |-> TRUE, items |-> <<MkCard(1, 2), MkCard(NoId, 1)>>]).ret
         = <<MkCard(2, 1), MkCard(1, 1), MkCard(NoId, 1)>>

(* C12, as claimed: for any stored Collection importCollection(exportCollection())
   succeeds and leaves the stored Collection equal, record for record and in
   the same order, to the one exported. *)
C12_RoundTripAlways ==
    [][lastOp'.op = "roundtrip" =>
         /\ lastOp'.raised = "none"
         /\ StoredCollection' = StoredCollection]_vars

(* C12, amended: while the browser storage accepts writes,
   importCollection(exportCollection()) succeeds and leaves the stored
   Collection equal, record for record and in the same order, to the one
   exported. *)
C12_RoundTrip ==
    [][(lastOp'.op = "roundtrip" /\ storageMode = "ok") =>
         /\ lastOp'.raised = "none"
         /\ StoredCollection' = StoredCollection
         /\ localStorage'[STORAGE_KEY].kind = "array"]_vars

\* a round trip over a Collection of two records or more has succeeded
C12_Witness ==
    /\ lastOp = [op |-> "roundtrip", raised |-> "none"]
    /\ Len(StoredCollection) >= 2
    /\ StoredCollection[1] # StoredCollection[2]

(* C13: importCollection given text that decodes to something other than an
   array, or text that does not parse, raises to its caller and leaves the
   stored Collection as it was. *)
C13_BadImportRejected ==
    \A jsonString \in ImportTexts :
        LET imported == JSON_parse(jsonString)
            r == importCollection(localStorage, storageMode, jsonString)
        IN  (imported.raised \/ ~imported.isArray) =>
              /\ r.raised \in {"SyntaxError", "Error"}
              /\ r.store = localStorage

\* an import of JSON that is not an array was refused over a non-empty Collection
C13_Witness ==
    /\ lastOp = [op |-> "import", raised |-> "Error"]
    /\ StoredCollection # <<>>

(* C14: a successful importCollection replaces the Collection wholesale: the
   stored Collection is then exactly the imported sequence, and a record of
   the prior Collection is in it only if the imported sequence holds it. *)
C14_ImportReplaces ==
    \A jsonString \in ImportTexts :
        LET imported == JSON_parse(jsonString).items
            r == importCollection(localStorage, storageMode, jsonString)
            after == r.store[STORAGE_KEY]
        IN  r.raised = "none" =>
              /\ after.kind = "array"
              /\ after.items = imported
              /\ r.ret = imported
              /\ \A k \in 1..Len(StoredCollection) :
                    (\E n \in 1..Len(after.items) : after.items[n] = StoredCollection[k])
                      => \E j \in 1..Len(imported) : imported[j] = StoredCollection[k]

\* an import has succeeded, and a further one would drop a stored record
C14_Witness ==
    /\ lastOp = [op |-> "import", raised |-> "none"]
    /\ StoredCollection # <<>>
    /\ \E jsonString \in ImportTexts :
          LET r == importCollection(localStorage, storageMode, jsonString)
          IN  /\ r.raised = "none"
              /\ r.ret # <<>>
              /\ \E k \in 1..Len(StoredCollection) :
                    \A j \in 1..Len(r.ret) : r.ret[j] # StoredCollection[k]

(* C15: getCollection never raises and always returns a sequence, the empty
   one when the storage key is absent, when storage cannot be read and when
   the stored text is malformed. *)
C15_GetCollectionSequence ==
    /\ Collection.isArray
    /\ (\/ storageMode = "denied"
        \/ localStorage[STORAGE_KEY].kind \in {"absent", "empty", "malformed"})
         => Collection.items = <<>>

(* C16: when the storage write inside addToCollection fails (quota exceeded or
   access denied), addToCollection raises that failure to its caller and the
   stored Collection is the same as before the call. *)
C16_WriteFailureRaised ==
    \A cards \in AddArgs :
        LET r == addToCollection(localStorage, storageMode, cards)
            reachesWrite == /\ Collection.isArray
                            /\ ~HasNullEntry(Collection.items)
                            /\ ~HasNullEntry(cards.items)
        IN  (storageMode \in {"full", "denied"} /\ reachesWrite) =>
              /\ r.raised = (IF storageMode = "full" THEN "QuotaExceededError"
                             ELSE "SecurityError")
              /\ r.store = localStorage

\* addToCollection has raised the quota failure over a non-empty Collection
C16_Witness ==
    /\ lastOp = [op |-> "add", raised |-> "QuotaExceededError"]
    /\ storageMode = "full"
    /\ StoredCollection # <<>>

(* C17: a pack-opening whose result has canSave=false (collection tier, mock
   tier, forced mock) leaves the stored Collection unchanged: the stored
   Collection changes only in the step in which handleOpenPack() saves a
   result with canSave=true; and no mock placeholder card is ever in the
   Collection, after any sequence of pack-openings. *)
C17_NoSaveNoChange ==
    /\ [](\A k \in 1..Len(StoredCollection) :
             StoredCollection[k].id \notin {getMockPack(clock)[n].id : n \in 1..5})
    /\ [][localStorage'[STORAGE_KEY] # localStorage[STORAGE_KEY] =>
            (pc = "returned" /\ result.canSave)]_vars

\* a mock pack is on the page, unsaved, while the Collection holds cards
C17_Witness ==
    /\ pc = "idle"
    /\ ~page.loading
    /\ ~page.saved
    /\ Len(page.cards) = 5
    /\ page.cards[1].id = 9001
    /\ result.source = "mock"
    /\ ~forceMockByEnv
    /\ ~forceMockByQuery
    /\ StoredCollection # <<>>

\* The failures the retry logic is meant for: abort by the timeout, network
\* failure, HTTP 429, 408 and 5xx
Transient(error) ==
    \/ error.name = "AbortError"
    \/ error = FailedToFetch
    \/ \E status \in HttpStatuses :
          error = HttpError(status) /\ (status \in {408, 429} \/ status >= 500)

(* C18: a request is retried only when its failure is transient (abort or
   timeout, network failure, HTTP 429, 408 or 5xx): whenever a settled request
   leads to the backoff wait, the error just caught is one of these; any other
   failure, HTTP 401 and 404 among them, ends the attempts for its page in the
   same step, with no wait and no further attempt. *)
C18_RetryOnlyTransient ==
    [][(pc # "backoff" /\ pc' = "backoff") =>
          /\ Transient(caught')
          /\ attempt' = attempt
          /\ pageIdx' = pageIdx]_vars

\* the first page failed with 404 and was given up; the second page failed
\* with 408 and waits for its retry
C18_Witness ==
    /\ pc = "backoff"
    /\ pageIdx = 2
    /\ lastError = HttpError(404)
    /\ caught = HttpError(408)
    /\ attempt = 0

(* C20: when the live path is exhausted, the notice of the fallback result
   begins with the message that classifies the last error: the timeout message
   for a request aborted by the timeout, the network message for a network
   failure, the auth message for HTTP 401/403, the rate-limit message for HTTP
   429, and for anything else the generic message (the error's own text, or the
   default text when it has none). *)
C20_NoticeClassifiesError ==
    (Returned /\ lastError # NoError) =>
        /\ Len(result.notice) = 2
        /\ result.notice[1] =
             CASE lastError.name = "AbortError" -> "timeout"
               [] lastError = FailedToFetch -> "network"
               [] lastError = HttpError(401) -> "auth"
               [] lastError = HttpError(429) -> "ratelimit"
               [] OTHER -> IF lastError.message # "" THEN lastError.message
                           ELSE "card retrieval failed"

(* C19: retries are bounded and back off exponentially: the retry logic makes
   at most (max retries + 1) attempts for one URL, numbered from 0, and the wait
   before the retry that follows failed attempt k is the base delay times 2^k:
   the base delay after attempt 0 and double the previous wait after each later
   attempt.  This holds for fetchJsonWithRetry and for the earlier
   fetchWithTimeout. *)
C19_BoundedBackoff ==
    /\ [](/\ attempt <= RETRY_COUNT
          /\ \A i \in Requests : cardPromises[i].retryCount <= MAX_RETRIES)
    /\ [][(pc # "backoff" /\ pc' = "backoff") =>
            delay' = (IF attempt = 0 THEN RETRY_BASE_DELAY_MS ELSE 2 * delay)]_vars
    /\ [][\A i \in Requests :
            (cardPromises[i].pc = "fetch" /\ cardPromises'[i].pc = "sleep") =>
               cardPromises'[i].delay =
                  (IF cardPromises[i].retryCount = 0 THEN RETRY_DELAY_BASE
                   ELSE 2 * cardPromises[i].delay)]_vars

\* an earlier-build request waits 4000 ms after its third failed attempt, while
\* another has used up its retries and is in its last attempt
C19_Witness ==
    /\ cardPromises[1].pc = "sleep"
    /\ cardPromises[1].retryCount = 2
    /\ cardPromises[1].delay = 4000
    /\ cardPromises[2].pc = "fetch"
    /\ cardPromises[2].retryCount = MAX_RETRIES

----------------------------------------------------------------------------
(* C21: partial failure among the page fetches of one pack-opening is
   tolerated.  openPack() returns source "api" exactly when the page loop
   ended with at least one card selected, the pack then holds those cards and
   no other (the cards picked from earlier pages stay in front, and every
   card carries an identifier the remote served), and the fallback is taken
   only when no page yielded a card.  fetchRandomCards() resolves exactly when
   some request returned a card, with one card for each identifier the
   successful requests returned, and rejects only when every request returned
   null. *)
C21_PartialFailureTolerated ==
    /\ [](Returned /\ ~Forced =>
            /\ (result.source = "api") <=> (obtained > 0)
            /\ result.source = "api" =>
                 /\ Len(result.cards) = obtained
                 /\ IdsOf(result.cards) \subseteq 1..(NumApiIds + 1))
    /\ [][(pc \in {"request", "body"} /\ pc' = "returned") =>
            /\ Len(selected) <= obtained'
            /\ selected # <<>> =>
                 /\ result'.source = "api"
                 /\ \A k \in 1..Len(selected) : result'.cards[k].id = selected[k].id]_vars
    /\ [](LET returnedCard == {i \in Requests : cardPromises[i].value = "card"}
          IN  /\ randomCards.status = "resolved" =>
                   /\ returnedCard # {}
                   /\ {randomCards.cards[k] : k \in 1..Len(randomCards.cards)}
                        = {cardPromises[i].card : i \in returnedCard}
                   /\ \A j, k \in 1..Len(randomCards.cards) :
                        j # k => randomCards.cards[j] # randomCards.cards[k]
              /\ randomCards.status = "rejected" => returnedCard = {})

\* fetchRandomCards() has resolved with one card although one of its requests
\* failed by timeout after its retries
C21_Witness ==
    /\ randomCards.status = "resolved"
    /\ Len(randomCards.cards) = 1
    /\ \E i \in Requests : /\ cardPromises[i].value = "null"
                           /\ cardPromises[i].failure = AbortError
    /\ \E i \in Requests : cardPromises[i].value = "card" /\ cardPromises[i].card # NoId

----------------------------------------------------------------------------
(* C22: every openPack() invocation eventually completes with a result: once
   the call has issued its first fetch, it returns. *)
C22_OpenPackCompletes == (pc = "request") ~> Returned

----------------------------------------------------------------------------
(* C23: sampleUnique(pool, count, chosen) always terminates and returns at
   most count cards, each an entry of the pool with a non-empty identifier,
   pairwise distinct by identifier and none with an identifier that was in
   chosen; it returns fewer than count only when its copy of the pool has been
   used up; and chosen holds afterwards what it held before and the
   identifier of every returned card. *)
C23_SampleUnique ==
    /\ ~sampling.done =>
         sampleUnique(sampling.cards, sampling.count, sampling.chosen) # {}
    /\ sampling.done =>
         LET res == sampling.result
         IN  /\ Len(res) <= sampling.count
             /\ \A k \in 1..Len(res) :
                  /\ \E j \in 1..Len(sampling.cards) : sampling.cards[j] = res[k]
                  /\ res[k] # NullEntry
                  /\ res[k].id # NoId
                  /\ res[k].id \notin sampling.chosen
             /\ PairwiseDistinctIds(res)
             /\ Len(res) < sampling.count => sampling.pool = <<>>
             /\ sampling.existingIds = sampling.chosen \cup IdsOf(res)

\* a call for two cards on three entries, one of them null and one with an
\* identifier already chosen, has returned the one card it could take
C23_Witness ==
    /\ sampling.done
    /\ sampling.count = 2
    /\ sampling.chosen = {1}
    /\ Len(sampling.cards) = 3
    /\ HasNullEntry(sampling.cards)
    /\ 1 \in IdsOf(sampling.cards)
    /\ Len(sampling.result) = 1
    /\ sampling.pool = <<>>
    /\ sampling.existingIds = {1, 2}

----------------------------------------------------------------------------
(* C24, as stated: after a live-path success with working storage, every
   card of the returned pack is present, by identifier, in the stored cache
   pool. *)
C24_PackAlwaysInPool ==
    Returned /\ result.source = "api" /\ storageMode = "ok" =>
        IdsOf(result.cards) \subseteq IdsOf(StoredPool)

(* C24, amended: after a live-path success with working storage, every card
   of the returned pack whose identifier was not in the pool before is
   stored in the pool, and every other card of the pack is present by
   identifier unless its stored record was among the oldest entries, evicted
   to keep the cap; so the whole pack is present by identifier whenever the
   pool and the new cards together do not exceed the cap. *)
C24_PackInPool ==
    [][(pc # "returned" /\ pc' = "returned" /\ result'.source = "api"
          /\ storageMode = "ok") =>
         LET old == CachePool
             new == readApiCachePool(localStorage', storageMode')
             pack == result'.cards
             new_cards == {k \in 1..Len(pack) : pack[k].id \notin IdsOf(old)}
             evicted == Len(old) + Cardinality(new_cards) - Len(new)
         IN  /\ {pack[k] : k \in new_cards} \subseteq {new[j] : j \in 1..Len(new)}
             /\ IdsOf(pack) \ IdsOf(new) \subseteq IdsOf(SubSeq(old, 1, evicted))
             /\ Len(old) + Cardinality(new_cards) <= API_CACHE_LIMIT =>
                  IdsOf(pack) \subseteq IdsOf(new)]_vars

\* a live success on a pool close to its cap: the pack holds a card whose
\* stored record the trim has evicted, and cards that are in the pool
C24_Witness ==
    /\ Returned
    /\ result.source = "api"
    /\ storageMode = "ok"
    /\ Len(StoredPool) = API_CACHE_LIMIT
    /\ \E k \in 1..Len(result.cards) : result.cards[k].id \notin IdsOf(StoredPool)
    /\ \E k \in 1..Len(result.cards) : \E j \in 1..Len(StoredPool) :
          StoredPool[j] = result.cards[k]

----------------------------------------------------------------------------
(* C25: cache pool eviction is oldest-first.  When a live success merges its
   new cards into the pool, the stored pool is the old pool without its first
   d entries, in the old order, followed by the new cards in pack order, where
   d is the number of entries by which the merge exceeds the cap (0 when it
   does not). *)
C25_OldestEvicted ==
    [][(pc # "returned" /\ pc' = "returned" /\ result'.source = "api"
          /\ storageMode = "ok") =>
         LET old == CachePool
             new == readApiCachePool(localStorage', storageMode')
             isNew(c) == c.id \notin IdsOf(old)
             added == SelectSeq(result'.cards, isNew)
             excess == Len(old) + Len(added) - API_CACHE_LIMIT
             d == IF excess > 0 THEN excess ELSE 0
         IN  /\ Len(new) = Len(old) + Len(added) - d
             /\ SubSeq(new, 1, Len(old) - d) = SubSeq(old, d + 1, Len(old))
             /\ SubSeq(new, Len(old) - d + 1, Len(new)) = added]_vars

\* a live success has pushed the pool over its cap: the records stored first
\* are gone, the next one is now in front, and the pack's last card is last
C25_Witness ==
    /\ Returned
    /\ result.source = "api"
    /\ Len(StoredPool) = API_CACHE_LIMIT
    /\ StoredPool[1].id > 1000
    /\ StoredPool[API_CACHE_LIMIT] = result.cards[Len(result.cards)]
    /\ StoredPool[API_CACHE_LIMIT - 1] = result.cards[Len(result.cards) - 1]

----------------------------------------------------------------------------
(* C26: when every live request of the call failed, the cache pool cannot
   supply a pack, and the Collection holds at least five records, openPack()
   returns source=collection with exactly five cards, each a record of the
   Collection. *)
C26_CollectionPackOfFive ==
    (/\ Returned
     /\ AllRequestsFailed
     /\ ~CanSupply(CachePool)
     /\ Collection.isArray
     /\ Len(Collection.items) >= 5) =>
        /\ result.source = "collection"
        /\ Len(result.cards) = 5
        /\ \A k \in 1..Len(result.cards) :
             \E j \in 1..Len(Collection.items) : Collection.items[j] = result.cards[k]

----------------------------------------------------------------------------
(* C27: whenever openPack() returns source=cache, the pack holds exactly five
   cards, all of them records of the cache pool with five distinct
   identifiers, provided the cache pool has been written by the pipeline
   only. *)
C27_CachePackOfFive ==
    Returned /\ result.source = "cache" =>
        /\ Len(result.cards) = 5
        /\ Cardinality(IdsOf(result.cards)) = 5
        /\ \A k \in 1..5 : \E j \in 1..Len(CachePool) : CachePool[j] = result.cards[k]

\* a cache-tier pack drawn from a pool of 198 cards the pipeline has stored
C27_Witness ==
    /\ Returned
    /\ result.source = "cache"
    /\ Len(CachePool) = API_CACHE_LIMIT - 2
    /\ Len(result.cards) = 5
    /\ \E k \in 1..5 : result.cards[k].id > 1000

----------------------------------------------------------------------------
(* C28: interleaved pack-openings in one tab do not lose each other's cards.
   Once two overlapping runs of handleOpenPack() have both ended, each with a
   result that has canSave=true and a save that did not raise, the stored
   Collection holds a record for every card of both packs, in whichever order
   the two runs resumed. *)
C28_NoLostCards ==
    (/\ pc = "idle"
     /\ result.canSave
     /\ lastOp.raised = "none"
     /\ other.pc = "done"
     /\ other.canSave
     /\ other.saved) =>
        IdsOf(result.cards) \cup IdsOf(other.cards) \subseteq IdsOf(StoredCollection)

\* both runs have saved, the second run before the first, and their packs
\* differ
C28_Witness ==
    /\ pc = "idle"
    /\ result.canSave
    /\ other.pc = "done"
    /\ other.saved
    /\ page.saved
    /\ page.cards = result.cards
    /\ IdsOf(result.cards) \ IdsOf(other.cards) # {}
    /\ IdsOf(other.cards) \ IdsOf(result.cards) # {}
    /\ Len(StoredCollection) > 5

----------------------------------------------------------------------------
(* C29: the timeout timer of a request is always released.  The timers that
   are set are exactly those of the fetches in flight: once a fetch has
   settled, by a response, a network failure or the abort of its own timer,
   no timer of it is left, in fetchJsonWithRetry's attempts as in every
   attempt and retry of the earlier fetchWithTimeout; a response served from
   the earlier build's cache never had one. *)
C29_TimerReleased ==
    /\ armedTimers = (IF pc = "request" THEN 1 ELSE 0)
    /\ \A i \in Requests :
         cardPromises[i].timers = (IF cardPromises[i].pc = "fetch" THEN 1 ELSE 0)

\* the second page's first fetch has ended in a network failure and the retry
\* is waiting: no timer is set
C29_Witness ==
    /\ pc = "backoff"
    /\ pageIdx = 2
    /\ caught = FailedToFetch
    /\ armedTimers = 0

----------------------------------------------------------------------------
(* C30: when every page request of fetchRandomCards() has failed by timeout,
   the function rejects with the connection-timeout message, and when every
   page request has failed by network failure it rejects with the
   network-error or the offline message. *)
C30_FailureClassified ==
    randomCards.status = "rejected" =>
        /\ (\A i \in Requests : cardPromises[i].failure = AbortError) =>
              randomCards.message = <<"connection timeout">>
        /\ (\A i \in Requests : cardPromises[i].failure \in {FailedToFetch, Offline}) =>
              randomCards.message \in {<<"network error">>, <<"offline">>}

----------------------------------------------------------------------------
\* C31: in a session that began with an empty store, whatever pack-openings
\* through handleOpenPack (live, cache, collection or mock results) and
\* clearCollection calls it is made of, no two records of the stored
\* Collection carry the same identifier.
C31_SessionCollectionDistinct == PairwiseDistinctIds(StoredCollection)

\* A pack that repeats identifiers of the stored Collection has just been
\* saved: the Collection has grown by the new cards only
C31_Witness ==
    /\ page.saved
    /\ lastOp = [op |-> "add", raised |-> "none"]
    /\ IdsOf(page.cards) \cap IdsOf(FirstPack) # {}
    /\ Len(StoredCollection) > PackSize
    /\ Len(StoredCollection) < 2 * PackSize

----------------------------------------------------------------------------
\* C32: in every state that openPack() calls reach from an empty cache pool,
\* each entry of the cache pool is a card with a non-empty identifier and no
\* two entries share an identifier; and a call that ends in a fallback tier
\* or in the forced mock leaves the stored pool as it was.
C32_PoolWellFormed ==
    /\ [](/\ ~HasNullEntry(StoredPool)
          /\ NoId \notin IdsOf(StoredPool)
          /\ PairwiseDistinctIds(StoredPool))
    /\ [][(pc # "returned" /\ pc' = "returned" /\ result'.source # "api")
            => localStorage'[API_CACHE_KEY] = localStorage[API_CACHE_KEY]]_vars

\* A live pack that repeats identifiers of the pool has been merged into it:
\* the pool has grown by the new cards only
C32_Witness ==
    /\ Returned
    /\ result.source = "api"
    /\ IdsOf(result.cards) \cap IdsOf(FirstPack) # {}
    /\ Len(StoredPool) > PackSize
    /\ Len(StoredPool) < 2 * PackSize

----------------------------------------------------------------------------
\* C33: every run of handleOpenPack that has set the loading flag resets it
\* in the end, whatever the pack-opening comes to; and the saved flag is set
\* only when the result had canSave=true and addToCollection was called for
\* it and returned without raising.
C33_LoadingResetSavedExact ==
    /\ page.loading ~> ~page.loading
    /\ [](page.saved => /\ result.canSave
                        /\ lastOp = [op |-> "add", raised |-> "none"])

====
